---- MODULE Spec2Model ----
(***************************************************************************)
(* Verification model of the FieldChartOCR tooling scripts.                *)
(*                                                                         *)
(*   Spec          the UUID document signer (scripts/homework_signer.py):  *)
(*                 sign_with_next_uuid and sign_pdf_with_barcodes called   *)
(*                 one after the other on the same CSV file.               *)
(*   SpecEncode    encode_4state_barcode applied to bounded inputs.        *)
(*   SpecVerifier  the key loop of AnnotationVerifier.run                  *)
(*                 (scripts/verify_annotations.py).                        *)
(*   SpecCoco      create_coco_structure (scripts/convert_to_coco.py) up   *)
(*                 to the train / val / test split.                        *)
(*   SpecCorner    detect_corner_with_templates                            *)
(*                 (scripts/auto_detect_corners.py), one step per          *)
(*                 (template, scale) pair.                                 *)
(*   SpecDistort   distort_images (scripts/distort_images_pil.py and       *)
(*                 scripts/distort_images_gimp.py) run again and again on  *)
(*                 one folder, one step per file.                          *)
(*   SpecTester    main of scripts/test_top_right_corner.py: the choice of *)
(*                 the snapshot to test.                                   *)
(*   SpecKp        kp_detection of scripts/test_top_right_corner.py from   *)
(*                 the decoded detections on.                              *)
(*                                                                         *)
(* Each specification moves its own variables and holds the others at rest.*)
(*                                                                         *)
(* Text is modelled as a sequence of tokens; the token " " is whitespace.  *)
(* A CSV file is the sequence of its data rows, each row a record with the *)
(* three columns uuid, entity and state that the signer reads and writes.  *)
(***************************************************************************)
EXTENDS Integers, Sequences, FiniteSets, TLC

VARIABLES
    \* ---- signer: persistent state
    csv,            \* rows of the CSV file on disk
    temps,          \* temporary files present in output_dir
    \* ---- signer: the running / last call
    pc,             \* "idle" | "pdf_loop" | "pdf_merge" | "pdf_finally"
    op,             \* operation of the running / last call
    rows,           \* in-memory rows of sign_pdf_with_barcodes
    num_pages,      \* len(doc)
    page_num,       \* loop variable of the page loop (0-based)
    signed_pages,   \* list of [page, uuid, temp_pdf]
    temp_files,     \* list of recorded temp file names
    output_path,    \* output path of the running / last call
    templates,      \* the template files the call finds on disk
    exc,            \* exception in flight inside the try block
    result,         \* what the last call returned or raised
    out_arg,        \* the output_filename / output_path argument of the call
    \* ---- signer: observation of the run
    csvBefore,      \* the CSV file as it was when the last call started
    wrote,          \* output files written by the running / last call
    issued,         \* uuid -> number of signed documents/pages carrying it
    \* ---- encoder
    data,           \* the argument of encode_4state_barcode
    bars,           \* its result
    enc_pc,         \* "ready" | "done"
    \* ---- annotation verifier: the object and its files
    annotations,    \* self.annotations: image -> dict
    current_index,  \* self.current_index (0-based)
    current_image_file, \* self.current_image_file: <<>> for None, else <<image>>
    current_image,  \* self.current_image: <<>> for None, else <<image>>
    current_point,  \* self.current_point: <<>> for None, else <<x, y>>
    mouse_point,    \* self.mouse_point
    run_pc,         \* "start" | "loop" | "no_images" | "quit" | "saved"
    output_file,    \* the output file: [written, content]
    readable,       \* the images cv2.imread can load
    \* ---- annotation verifier: observation of the run
    loaded,         \* the annotations as loaded from the input file
    touched,        \* the images that have been the current image
    own_point,      \* the current image's own point: its loaded annotation,
                    \* or the latest click made while it was current
    \* ---- create_coco_structure
    coco_annotations,   \* annotations: the content of annotations_file
    train_ratio,        \* the train_ratio argument
    val_ratio,          \* the val_ratio argument
    valid_annotations,  \* valid_annotations
    shuffled_files,     \* image_files after np.random.shuffle
    train_files,        \* train_files
    val_files,          \* val_files
    test_files,         \* test_files
    coco_pc,            \* "ready" | "filtered" | "split"
    \* ---- detect_corner_with_templates
    image,              \* the image argument: None or <<its shape>>
    corner_templates,   \* the templates argument: list of [name, shape]
    region_arg,         \* the search_region argument: None or <<x, y, w, h>>
    scales,             \* the scales argument
    search_region,      \* search_region from line 61 on
    template_index,     \* position of the loop over templates (1-based)
    scale_index,        \* position of the loop over scales (1-based)
    best_confidence,    \* best_confidence
    best_location,      \* best_location
    best_match,         \* best_match
    corner_pc,          \* "ready" | "loop" | "done"
    corner_result,      \* the returned (x, y, confidence)
    \* ---- detect_corner_with_templates: observation of the run
    matched,            \* what cv2.minMaxLoc reported, call after call
    \* ---- distort_images
    folder_exists,      \* os.path.exists(input_folder)
    folder,             \* the files of input_folder: name -> content
    suffix,             \* the suffix argument
    jpg_files,          \* jpg_files, from the current file on
    processed,          \* processed
    errors,             \* errors
    distort_pc,         \* "idle" | "loop"
    run_no,             \* the number of the running / last run
    \* ---- distort_images: observation of the runs
    after_first,        \* the folder as the first run left it
    \* ---- test_top_right_corner.main
    test_iter,          \* args.test_iter
    snapshot_dir,       \* the files of outputs/<cfg_file>: None when the
                        \* directory is missing, else <<set of names>>
    snapshots,          \* snapshots
    printed,            \* the lines printed
    test_model_calls,   \* the test_iter of each call of test_model
    main_pc,            \* "start" | "listed" | "test" | "returned" | "raised"
    \* ---- test_top_right_corner.main: observation of the run
    iter_arg,           \* --test_iter as given on the command line
    \* ---- kp_detection
    categories,         \* db.configs["categories"]
    max_per_image,      \* db.configs["max_per_image"]
    detections_point_tl,    \* detections_point_tl: list of [score, class, x, y]
    detections_point_br,    \* detections_point_br
    top_points_tl,      \* top_points_tl: category -> list of detections
    top_points_br,      \* top_points_br
    kp_pc,              \* "decoded" | "kept" | "grouped" | "tl_done" | "done"
    \* ---- kp_detection: observation of the run
    grouped_tl,         \* top_points_tl before the max_per_image filter
    grouped_br          \* top_points_br before the max_per_image filter

signerVars == <<csv, temps, pc, op, rows, num_pages, page_num, signed_pages,
                temp_files, output_path, templates, exc, result, out_arg,
                csvBefore, wrote, issued>>

encoderVars == <<data, bars, enc_pc>>

verifierVars == <<annotations, current_index, current_image_file, current_image,
                  current_point, mouse_point, run_pc, output_file, readable,
                  loaded, touched, own_point>>

cocoVars == <<coco_annotations, train_ratio, val_ratio, valid_annotations,
              shuffled_files, train_files, val_files, test_files, coco_pc>>

cornerVars == <<image, corner_templates, region_arg, scales, search_region,
                template_index, scale_index, best_confidence, best_location,
                best_match, corner_pc, corner_result, matched>>

distortVars == <<folder_exists, folder, suffix, jpg_files, processed, errors,
                 distort_pc, run_no, after_first>>

testerVars == <<test_iter, snapshot_dir, snapshots, printed, test_model_calls,
                main_pc, iter_arg>>

kpVars == <<categories, max_per_image, detections_point_tl, detections_point_br,
            top_points_tl, top_points_br, kp_pc, grouped_tl, grouped_br>>

vars == <<signerVars, encoderVars, verifierVars, cocoVars, cornerVars,
          distortVars, testerVars, kpVars>>

(***************************************************************************)
(* Bounds                                                                  *)
(***************************************************************************)
MaxRows == 3
MaxPages == 2
MaxLen == 3
MaxImages == 2
MaxCocoImages == 3
MaxTemplates == 2
MaxFiles == 3
MaxRuns == 2
MaxSnapshots == 3
MaxDetections == 3

(***************************************************************************)
(* Text helpers                                                            *)
(***************************************************************************)
IsSpace(c) == c = " "

RECURSIVE LStrip(_)
LStrip(s) ==
    IF s = <<>> THEN s
    ELSE IF IsSpace(Head(s)) THEN LStrip(Tail(s)) ELSE s

RECURSIVE RStrip(_)
RStrip(s) ==
    IF s = <<>> THEN s
    ELSE IF IsSpace(s[Len(s)]) THEN RStrip(SubSeq(s, 1, Len(s) - 1)) ELSE s

\* str.strip()
Strip(s) == RStrip(LStrip(s))

\* truth value of a str: non-empty
Truthy(s) == s # <<>>

\* str.replace('-', '_')
RECURSIVE HyphenToUnderscore(_)
HyphenToUnderscore(s) ==
    IF s = <<>> THEN <<>>
    ELSE <<IF Head(s) = "-" THEN "_" ELSE Head(s)>> \o HyphenToUnderscore(Tail(s))

\* str.replace('-', '')
RECURSIVE DropHyphens(_)
DropHyphens(s) ==
    IF s = <<>> THEN <<>>
    ELSE (IF Head(s) = "-" THEN <<>> ELSE <<Head(s)>>) \o DropHyphens(Tail(s))

OptNone == [some |-> FALSE, val |-> <<>>]
Some(v) == [some |-> TRUE, val |-> v]

\* os.path.join(output_dir, name) and os.path.basename
PathJoin(dir, name) == [dir |-> dir, base |-> name]
Basename(p) == p.base

(***************************************************************************)
(* The CSV file                                                            *)
(***************************************************************************)
\* csv.DictReader: one dict per data row, keyed by the header
ReadCsv(file) == [i \in DOMAIN file |->
                    [uuid |-> file[i].uuid, entity |-> file[i].entity,
                     state |-> file[i].state]]

\* csv.DictWriter with fieldnames uuid, entity, state: header, then the rows
WriteCsv(rs) == [i \in DOMAIN rs |->
                    [uuid |-> rs[i].uuid, entity |-> rs[i].entity,
                     state |-> rs[i].state]]

\* the test of the selection loops: entity and state both blank when stripped
\* (faulty variant: 'or' for 'and')
AvailableOr(row) == ~Truthy(Strip(row.entity)) \/ ~Truthy(Strip(row.state))
Available(row) == ~Truthy(Strip(row.entity)) /\ ~Truthy(Strip(row.state))

\* the selection loop: index of the first available row, 0 for None
\* (faulty variant: the last available row)
NextAvailableLast(rs) ==
    IF \E i \in DOMAIN rs : Available(rs[i])
    THEN CHOOSE i \in DOMAIN rs :
            Available(rs[i]) /\ \A j \in DOMAIN rs : Available(rs[j]) => j <= i
    ELSE 0
NextAvailable(rs) ==
    IF \E i \in DOMAIN rs : Available(rs[i])
    THEN CHOOSE i \in DOMAIN rs :
            Available(rs[i]) /\ \A j \in 1..(i - 1) : ~Available(rs[j])
    ELSE 0

Active == <<"active">>

\* rows[selected_index]['entity'] = ...; rows[selected_index]['state'] = 'active'
\* (faulty variant: the update is lost)
MarkRowForgotten(rs, i, entity) == rs
MarkRow(rs, i, entity) == [rs EXCEPT ![i].entity = entity, ![i].state = Active]

(***************************************************************************)
(* Initial CSV files: MaxRows rows with pairwise distinct uuids, each row  *)
(* empty, holding only whitespace, or with one of entity and state set.    *)
(* Rows with both set arise from the calls.                                *)
(***************************************************************************)
UuidOf(i) == <<"u", "-", ToString(i)>>

RowKinds == { [entity |-> <<>>,              state |-> <<>>],
              [entity |-> <<" ">>,           state |-> <<" ", " ">>],
              [entity |-> <<"old", ".svg">>, state |-> <<" ">>],
              [entity |-> <<" ">>,           state |-> Active] }

InitialCsvs ==
    { [i \in 1..MaxRows |-> [uuid |-> UuidOf(i), entity |-> k[i].entity,
                             state |-> k[i].state]] : k \in [1..MaxRows -> RowKinds] }

(***************************************************************************)
(* Call results and the idle values of the call-local variables            *)
(***************************************************************************)
NoPath == PathJoin("", <<>>)
NoTemplates == [t0 |-> "-", t1 |-> "-", td |-> "-"]

RetInit == [kind |-> "init"]
RetNone == [kind |-> "none"]
RetSvg(uuid, path) == [kind |-> "tuple", uuid |-> uuid, path |-> path]
RetPdf(path, pages) == [kind |-> "tuple", path |-> path, pages |-> pages]
Raised(e) == [kind |-> "raise", exc |-> e]

Count(u, assigned) == [assigned EXCEPT ![u] = @ + 1]

RECURSIVE CountAll(_, _)
CountAll(pages, assigned) ==
    IF pages = <<>> THEN assigned
    ELSE CountAll(Tail(pages), Count(Head(pages).uuid, assigned))

(***************************************************************************)
(* sign_with_next_uuid(csv_path, input_svg_path, output_filename)          *)
(* svg_ok: insert_barcode_into_svg can parse input_svg_path; otherwise it  *)
(* raises before it writes anything.                                       *)
(***************************************************************************)
SignWithNextUuid(output_filename, svg_ok) ==
    /\ pc = "idle"
    /\ op' = "sign_with_next_uuid"
    /\ out_arg' = output_filename
    /\ csvBefore' = csv
    /\ LET rs == ReadCsv(csv)
           selected_index == NextAvailable(rs)
       IN  IF selected_index = 0
           THEN /\ result' = RetNone
                /\ output_path' = NoPath
                /\ wrote' = {}
                /\ UNCHANGED <<csv, issued>>
           ELSE LET selected_uuid == rs[selected_index].uuid
                    uuid_for_barcode == DropHyphens(selected_uuid)
                    name == IF output_filename.some THEN output_filename.val
                            ELSE HyphenToUnderscore(selected_uuid)
                    out == PathJoin(".", name \o <<".svg">>)
                IN  /\ output_path' = out
                    /\ IF ~svg_ok
                       THEN /\ result' = Raised("ParseError")
                            /\ wrote' = {}
                            /\ UNCHANGED <<csv, issued>>
                       ELSE /\ wrote' = {[path |-> out, label |-> <<selected_uuid>>,
                                          barcode |-> <<uuid_for_barcode>>]}
                            /\ csv' = WriteCsv(MarkRow(rs, selected_index,
                                                       name \o <<".svg">>))
                            /\ issued' = Count(selected_uuid, issued)
                            /\ result' = RetSvg(selected_uuid, out)
    \* no sign_pdf_with_barcodes call is running: its locals hold nothing
    /\ rows' = <<>>
    /\ num_pages' = 0
    /\ page_num' = 0
    /\ signed_pages' = <<>>
    /\ temp_files' = <<>>
    /\ templates' = NoTemplates
    /\ UNCHANGED <<temps, pc, exc>>

(***************************************************************************)
(* sign_pdf_with_barcodes(pdf_path, csv_path, output_path, output_dir,     *)
(*                        template_svg_path)                               *)
(* A template file is "ok", "missing", "norect" (no 'auspost' rect) or     *)
(* "badrender" (parsed, but the renderer cannot open the written copy).    *)
(***************************************************************************)
TemplateEnvs ==
    { [t0 |-> "ok",      t1 |-> "ok",        td |-> "ok"],
      [t0 |-> "missing", t1 |-> "ok",        td |-> "ok"],
      [t0 |-> "ok",      t1 |-> "missing",   td |-> "missing"],
      [t0 |-> "missing", t1 |-> "missing",   td |-> "missing"],
      [t0 |-> "ok",      t1 |-> "norect",    td |-> "ok"],
      [t0 |-> "ok",      t1 |-> "badrender", td |-> "ok"],
      [t0 |-> "norect",  t1 |-> "ok",        td |-> "missing"] }

Exists(t) == t # "missing"

PdfPath == PathJoin("", <<"hw", ".pdf">>)

\* os.path.splitext(name)[0]
Splitext0(name) == SubSeq(name, 1, Len(name) - 1)

TempTemplate(n) == <<"temp_template_", ToString(n), ".svg">>
TempPage(n) == <<"temp_page_", ToString(n), ".pdf">>

\* lines 425-452: the checks before the try block, the CSV read, the PDF open
SignPdfStart(pages, path_arg, tmpl) ==
    /\ pc = "idle"
    /\ op' = "sign_pdf_with_barcodes"
    /\ out_arg' = path_arg
    /\ csvBefore' = csv
    /\ wrote' = {}
    /\ templates' = tmpl
    /\ num_pages' = pages
    /\ IF ~Exists(tmpl.t0) /\ ~Exists(tmpl.t1) /\ ~Exists(tmpl.td)
       THEN /\ result' = Raised("FileNotFoundError")
            /\ output_path' = NoPath
            /\ UNCHANGED <<pc, rows>>
       ELSE LET output_dir == IF PdfPath.dir = "" THEN "." ELSE PdfPath.dir
                base_name == Splitext0(Basename(PdfPath))
            IN  /\ output_path' = IF path_arg.some THEN path_arg.val
                                  ELSE PathJoin(output_dir,
                                                base_name \o <<"_signed", ".pdf">>)
                /\ rows' = ReadCsv(csv)
                /\ pc' = "pdf_loop"
                /\ result' = RetInit
    /\ page_num' = 0
    /\ signed_pages' = <<>>
    /\ temp_files' = <<>>
    /\ exc' = "none"
    /\ UNCHANGED <<csv, temps, issued>>

\* lines 474-489: the template of a page, "missing" when neither it nor the
\* default template exists
PageTemplate(n, tmpl) ==
    LET t == IF n % 2 = 1 THEN tmpl.t1 ELSE tmpl.t0
    IN  IF Exists(t) THEN t ELSE tmpl.td

\* the entity written for a page (line 852)
\* (faulty variant: the 0-based page number)
PageEntityZeroBased(path, n) == Basename(path) \o <<"_page_", ToString(n)>>
PageEntity(path, n) == Basename(path) \o <<"_page_", ToString(n + 1)>>

\* lines 456-855: one iteration of the page loop, or its end
SignPdfPage ==
    /\ pc = "pdf_loop"
    /\ IF page_num >= num_pages
       THEN /\ pc' = "pdf_merge"
            /\ UNCHANGED <<rows, page_num, signed_pages, temp_files, temps, exc>>
       ELSE LET selected_index == NextAvailable(rows)
                t == PageTemplate(page_num, templates)
            IN  IF selected_index = 0
                THEN \* "No more UUIDs available": break
                     /\ pc' = "pdf_merge"
                     /\ UNCHANGED <<rows, page_num, signed_pages, temp_files,
                                    temps, exc>>
                ELSE IF ~Exists(t)
                THEN /\ exc' = "FileNotFoundError"
                     /\ pc' = "pdf_finally"
                     /\ UNCHANGED <<rows, page_num, signed_pages, temp_files, temps>>
                ELSE IF t = "norect"
                THEN /\ exc' = "ValueError"
                     /\ pc' = "pdf_finally"
                     /\ UNCHANGED <<rows, page_num, signed_pages, temp_files, temps>>
                ELSE IF t = "badrender"
                THEN \* temp_template_<n>.svg is written and recorded, then
                     \* fitz.open(temp_template_svg) fails
                     /\ temps' = temps \cup {TempTemplate(page_num)}
                     /\ temp_files' = Append(temp_files, TempTemplate(page_num))
                     /\ exc' = "RuntimeError"
                     /\ pc' = "pdf_finally"
                     /\ UNCHANGED <<rows, page_num, signed_pages>>
                ELSE LET selected_uuid == rows[selected_index].uuid
                     IN  /\ temps' = temps \cup {TempTemplate(page_num),
                                                 TempPage(page_num)}
                         /\ temp_files' = temp_files \o <<TempTemplate(page_num),
                                                          TempPage(page_num)>>
                         /\ rows' = MarkRow(rows, selected_index,
                                            PageEntity(output_path, page_num))
                         /\ signed_pages' = Append(signed_pages,
                                [page |-> page_num + 1, uuid |-> selected_uuid,
                                 temp_pdf |-> TempPage(page_num)])
                         /\ page_num' = page_num + 1
                         /\ UNCHANGED <<pc, exc>>
    /\ UNCHANGED <<csv, op, num_pages, output_path, templates, result, out_arg,
                   csvBefore, wrote, issued>>

\* merged_doc.save(output_path): PyMuPDF refuses to save a document without
\* pages (ValueError: cannot save with zero pages)
SaveRaises(pages) == Len(pages) < 1

\* lines 857-873: merge the pages, save the merged PDF, write the CSV back
SignPdfMerge ==
    /\ pc = "pdf_merge"
    /\ pc' = "pdf_finally"
    /\ IF SaveRaises(signed_pages)
       THEN /\ exc' = "ValueError"
            /\ UNCHANGED <<csv, wrote, issued>>
       ELSE /\ wrote' = {[path |-> output_path,
                          label |-> [k \in DOMAIN signed_pages |-> signed_pages[k].uuid],
                          barcode |-> [k \in DOMAIN signed_pages |->
                                         DropHyphens(signed_pages[k].uuid)]]}
            /\ csv' = WriteCsv(rows)
            /\ issued' = CountAll(signed_pages, issued)
            /\ UNCHANGED exc
    /\ UNCHANGED <<temps, op, rows, num_pages, page_num, signed_pages, temp_files,
                   output_path, templates, result, out_arg, csvBefore>>

\* lines 875-886: the finally block, then the return or the propagated exception
\* (faulty variant: nothing is removed)
RemoveNone(files, recorded) == files
RemoveAll(files, recorded) == files \ {recorded[i] : i \in DOMAIN recorded}

SignPdfFinally ==
    /\ pc = "pdf_finally"
    /\ temps' = RemoveAll(temps, temp_files)
    /\ result' = IF exc # "none" THEN Raised(exc)
                 ELSE RetPdf(output_path, signed_pages)
    /\ pc' = "idle"
    /\ exc' = "none"
    /\ UNCHANGED <<csv, op, rows, num_pages, page_num, signed_pages, temp_files,
                   output_path, templates, out_arg, csvBefore, wrote, issued>>

(***************************************************************************)
(* The signer specification                                                *)
(***************************************************************************)
OutputFilenames == {OptNone, Some(<<"doc">>)}
OutputPaths == {OptNone, Some(PathJoin("out", <<"s", ".pdf">>))}

SignerStart(file) ==
    /\ csv = file
    /\ temps = {}
    /\ pc = "idle"
    /\ op = "none"
    /\ rows = <<>>
    /\ num_pages = 0
    /\ page_num = 0
    /\ signed_pages = <<>>
    /\ temp_files = <<>>
    /\ output_path = NoPath
    /\ templates = NoTemplates
    /\ exc = "none"
    /\ result = RetInit
    /\ out_arg = OptNone
    /\ csvBefore = csv
    /\ wrote = {}
    /\ issued = [u \in {csv[i].uuid : i \in DOMAIN csv} |-> 0]

SignerInit == \E file \in InitialCsvs : SignerStart(file)
SignerAtRest == SignerStart(<<>>)

(***************************************************************************)
(* encode_4state_barcode                                                   *)
(***************************************************************************)
CHAR_MAP ==
    [A |-> <<"A","T","D","A">>, B |-> <<"A","D","T","A">>, C |-> <<"A","A","T","D">>,
     D |-> <<"A","D","A","T">>, E |-> <<"T","A","D","A">>, F |-> <<"T","D","A","A">>,
     G |-> <<"T","D","D","A">>, H |-> <<"T","A","D","A">>, I |-> <<"D","T","A","A">>,
     J |-> <<"D","A","T","D">>, K |-> <<"D","A","A","T">>, L |-> <<"D","A","A","D">>,
     M |-> <<"A","T","A","D">>, N |-> <<"T","D","A","A">>, O |-> <<"T","D","A","D">>,
     P |-> <<"T","D","D","A">>, Q |-> <<"A","T","A","A">>, R |-> <<"A","A","D","T">>,
     S |-> <<"A","A","D","T">>, T |-> <<"A","A","T","A">>, U |-> <<"A","T","D","D">>,
     V |-> <<"T","A","D","D">>, W |-> <<"T","D","D","A">>, X |-> <<"T","A","D","A">>,
     Y |-> <<"D","T","A","A">>, Z |-> <<"D","A","T","D">>]
    @@ ("0" :> <<"A","D","D","A">> @@ "1" :> <<"D","A","D","A">>
     @@ "2" :> <<"D","A","A","D">> @@ "3" :> <<"A","D","A","D">>
     @@ "4" :> <<"D","A","D","A">> @@ "5" :> <<"D","A","A","D">>
     @@ "6" :> <<"D","D","A","A">> @@ "7" :> <<"D","A","D","A">>
     @@ "8" :> <<"D","A","A","D">> @@ "9" :> <<"D","D","A","A">>)

\* str.upper() on the letters a-z; every other character is left as it is
UpperOf ==
    [a |-> "A", b |-> "B", c |-> "C", d |-> "D", e |-> "E", f |-> "F", g |-> "G",
     h |-> "H", i |-> "I", j |-> "J", k |-> "K", l |-> "L", m |-> "M", n |-> "N",
     o |-> "O", p |-> "P", q |-> "Q", r |-> "R", s |-> "S", t |-> "T", u |-> "U",
     v |-> "V", w |-> "W", x |-> "X", y |-> "Y", z |-> "Z"]
Upper(c) == IF c \in DOMAIN UpperOf THEN UpperOf[c] ELSE c

\* CHAR_MAP.get(c, 'ATDA')
MapGet(c) == IF c \in DOMAIN CHAR_MAP THEN CHAR_MAP[c] ELSE <<"A","T","D","A">>

\* (faulty variant: no c.upper())
char_to_bars_as_given(c) == MapGet(c)
char_to_bars(c) == MapGet(Upper(c))

RECURSIVE encode_4state_barcode(_)
encode_4state_barcode(d) ==
    IF d = <<>> THEN <<>>
    ELSE char_to_bars(Head(d)) \o encode_4state_barcode(Tail(d))

EncAlphabet == {"a", "A", "q", "Z", "7", "-"}

RECURSIVE SeqsUpTo(_, _)
SeqsUpTo(S, n) ==
    IF n = 0 THEN {<<>>}
    ELSE LET shorter == SeqsUpTo(S, n - 1)
         IN  shorter \cup {Append(q, c) : q \in shorter, c \in S}

EncoderStart(d) ==
    /\ data = d
    /\ bars = <<>>
    /\ enc_pc = "ready"

EncoderInit == \E d \in SeqsUpTo(EncAlphabet, MaxLen) : EncoderStart(d)
EncoderAtRest == EncoderStart(<<>>)

Encode ==
    /\ enc_pc = "ready"
    /\ bars' = encode_4state_barcode(data)
    /\ enc_pc' = "done"
    /\ UNCHANGED data

(***************************************************************************)
(* AnnotationVerifier                                                      *)
(* Images are numbered in the sorted order of their file names.  A dict is *)
(* a function from its keys; None is <<>>, a number n is <<n>>, a point is *)
(* <<x, y>>.  Coordinates count half pixels, so that int() has a fraction  *)
(* to cut; a click lands on a whole pixel.                                 *)
(***************************************************************************)
None == <<>>
Num(n) == <<n>>

\* d.get(k): None when the key is missing
DictGet(d, k) == IF k \in DOMAIN d THEN d[k] ELSE None
\* d[k] = v
DictSet(d, k, v) == [j \in DOMAIN d \cup {k} |-> IF j = k THEN v ELSE d[j]]
\* if k in d: del d[k]
DictDel(d, k) == [j \in DOMAIN d \ {k} |-> d[j]]

\* int(v) and float(v) of a non-negative number
IntOf(n) == (n \div 2) * 2
FloatOf(n) == n

\* x, y, verified = True, needs_review deleted (lines 116-121, 156-162,
\* 171-177, 183-189)
\* (faulty variant: needs_review is kept)
SetVerifiedKeepingReview(ann, point) ==
    DictSet(DictSet(DictSet(ann, "x", Num(FloatOf(point[1]))),
                    "y", Num(FloatOf(point[2]))), "verified", TRUE)
SetVerified(ann, point) ==
    DictDel(DictSet(DictSet(DictSet(ann, "x", Num(FloatOf(point[1]))),
                            "y", Num(FloatOf(point[2]))), "verified", TRUE),
            "needs_review")

\* x = y = None, needs_review = True (lines 122-125, 195-198)
SetRejected(ann) ==
    DictSet(DictSet(DictSet(ann, "x", None), "y", None), "needs_review", TRUE)

\* self.annotations[self.current_image_file] = ann
Store(anns, file, ann) == [anns EXCEPT ![file[1]] = ann]

\* sorted(self.annotations.keys())
image_files(anns) == [i \in 1..Len(anns) |-> i]

\* load_image(index): the fields it leaves behind and its return value
load_image(index, anns, canRead, now) ==
    IF index < 0 \/ index >= Len(image_files(anns))
    THEN [now EXCEPT !.ok = FALSE]
    ELSE LET file == image_files(anns)[index + 1]
             ann == anns[file]
         IN  IF file \notin canRead
             THEN \* "Could not load": returns before the point is refreshed
                  [now EXCEPT !.index = index, !.file = <<file>>,
                              !.image = None, !.ok = FALSE]
             ELSE [index |-> index, file |-> <<file>>, image |-> <<file>>,
                   point |-> IF DictGet(ann, "x") # None /\ DictGet(ann, "y") # None
                             THEN <<IntOf(ann["x"][1]), IntOf(ann["y"][1])>>
                             ELSE None,
                   mouse |-> None, ok |-> TRUE]

Fields == [index |-> current_index, file |-> current_image_file,
           image |-> current_image, point |-> current_point,
           mouse |-> mouse_point, ok |-> TRUE]

SetFields(f) ==
    /\ current_index' = f.index
    /\ current_image_file' = f.file
    /\ current_image' = f.image
    /\ current_point' = f.point
    /\ mouse_point' = f.mouse

\* the point an image brings with it when it becomes the current image
PointOf(ann) ==
    IF DictGet(ann, "x") # None /\ DictGet(ann, "y") # None
    THEN <<(ann["x"][1] \div 2) * 2, (ann["y"][1] \div 2) * 2>>
    ELSE None

Observe(f, anns) ==
    /\ touched' = touched \cup {f.file[i] : i \in DOMAIN f.file}
    /\ own_point' = IF f.file = current_image_file THEN own_point
                    ELSE PointOf(anns[f.file[1]])

\* lines 134-142: the window, the mouse callback, the first image
RunStart ==
    /\ run_pc = "start"
    /\ LET f == load_image(0, annotations, readable, Fields)
       IN  /\ SetFields(f)
           /\ run_pc' = IF f.ok THEN "loop" ELSE "no_images"
           /\ Observe(f, annotations)
    /\ UNCHANGED <<annotations, output_file, readable, loaded>>

\* mouse_callback on EVENT_LBUTTONDOWN, delivered while waitKey waits
MouseClick(x, y) ==
    /\ run_pc = "loop"
    /\ mouse_point' = <<x, y>>
    /\ current_point' = <<x, y>>
    /\ own_point' = <<x, y>>
    /\ UNCHANGED <<annotations, current_index, current_image_file, current_image,
                   run_pc, output_file, readable, loaded, touched>>

\* save_annotations (lines 111-130)
SavedAnnotations ==
    IF current_image_file # None
    THEN Store(annotations, current_image_file,
               IF current_point # None
               THEN SetVerified(annotations[current_image_file[1]], current_point)
               ELSE SetRejected(annotations[current_image_file[1]]))
    ELSE annotations

\* 'q' (lines 147-149)
\* (faulty variant: falls through to the save)
QuitSaving ==
    /\ run_pc = "loop"
    /\ run_pc' = "quit"
    /\ annotations' = SavedAnnotations
    /\ output_file' = [written |-> TRUE, content |-> SavedAnnotations]
    /\ UNCHANGED <<current_index, current_image_file, current_image, current_point,
                   mouse_point, readable, loaded, touched, own_point>>
KeyQuit ==
    /\ run_pc = "loop"
    /\ run_pc' = "quit"
    /\ UNCHANGED <<annotations, current_index, current_image_file, current_image,
                   current_point, mouse_point, output_file, readable, loaded,
                   touched, own_point>>

\* 's' (lines 150-152)
KeySave ==
    /\ run_pc = "loop"
    /\ run_pc' = "saved"
    /\ annotations' = SavedAnnotations
    /\ output_file' = [written |-> TRUE, content |-> SavedAnnotations]
    /\ UNCHANGED <<current_index, current_image_file, current_image, current_point,
                   mouse_point, readable, loaded, touched, own_point>>

\* "Save current annotation before moving" (lines 155-162, 170-177)
SavedBeforeMoving ==
    IF current_image_file # None /\ current_point # None
    THEN Store(annotations, current_image_file,
               SetVerified(annotations[current_image_file[1]], current_point))
    ELSE annotations

\* 'n' or right arrow (lines 153-166)
KeyNext ==
    /\ run_pc = "loop"
    /\ annotations' = SavedBeforeMoving
    /\ LET f == IF current_index < Len(image_files(annotations)) - 1
                THEN load_image(current_index + 1, SavedBeforeMoving, readable, Fields)
                ELSE Fields
       IN  SetFields(f) /\ Observe(f, SavedBeforeMoving)
    /\ UNCHANGED <<run_pc, output_file, readable, loaded>>

\* 'p' or left arrow (lines 167-180)
KeyPrev ==
    /\ run_pc = "loop"
    /\ IF current_index > 0
       THEN /\ annotations' = SavedBeforeMoving
            /\ LET f == load_image(current_index - 1, SavedBeforeMoving, readable,
                                   Fields)
               IN  SetFields(f) /\ Observe(f, SavedBeforeMoving)
       ELSE UNCHANGED <<annotations, current_index, current_image_file,
                        current_image, current_point, mouse_point, touched,
                        own_point>>
    /\ UNCHANGED <<run_pc, output_file, readable, loaded>>

\* 'a' (lines 181-191)
KeyAccept ==
    /\ run_pc = "loop"
    /\ annotations' =
          IF current_point # None
          THEN Store(annotations, current_image_file,
                     SetVerified(annotations[current_image_file[1]], current_point))
          ELSE annotations
    /\ UNCHANGED <<current_index, current_image_file, current_image, current_point,
                   mouse_point, run_pc, output_file, readable, loaded, touched,
                   own_point>>

\* 'r' (lines 192-201)
KeyReject ==
    /\ run_pc = "loop"
    /\ current_point' = None
    /\ mouse_point' = None
    /\ own_point' = None
    /\ annotations' = Store(annotations, current_image_file,
                            SetRejected(annotations[current_image_file[1]]))
    /\ UNCHANGED <<current_index, current_image_file, current_image, run_pc,
                   output_file, readable, loaded, touched>>

\* 'h' and every other key (lines 202-210): prints, changes nothing
KeyOther ==
    /\ run_pc = "loop"
    /\ UNCHANGED verifierVars

\* the annotation entries an input file may hold
AnnKinds ==
    { [x |-> Num(3), y |-> Num(8), confidence |-> "high"],
      [x |-> Num(4), y |-> Num(2), confidence |-> "low", needs_review |-> TRUE],
      [x |-> None, y |-> None, confidence |-> "zero", needs_review |-> TRUE] }

ClickPoints == {<<0, 0>>, <<6, 2>>}

VerifierStart(anns, canRead) ==
    /\ annotations = anns
    /\ current_index = 0
    /\ current_image_file = None
    /\ current_image = None
    /\ current_point = None
    /\ mouse_point = None
    /\ run_pc = "start"
    /\ output_file = [written |-> FALSE, content |-> <<>>]
    /\ readable = canRead
    /\ loaded = anns
    /\ touched = {}
    /\ own_point = None

VerifierInit ==
    \E n \in 1..MaxImages :
        \E anns \in [1..n -> AnnKinds], canRead \in SUBSET (1..n) :
            VerifierStart(anns, canRead)
VerifierAtRest == VerifierStart(<<>>, {})

(***************************************************************************)
(* create_coco_structure                                                   *)
(* Image files are numbered in the sorted order of their names.  A ratio   *)
(* is a fraction num/den, so that int(n_total * ratio) has a fraction to   *)
(* cut.  np.random.shuffle is any permutation of the list.                 *)
(***************************************************************************)
Ratio(n, d) == [num |-> n, den |-> d]

\* int(n * ratio) for n >= 0 and ratio >= 0
IntTimes(n, ratio) == (n * ratio.num) \div ratio.den

\* sorted(list(keys))
RECURSIVE Sorted(_)
Sorted(S) ==
    IF S = {} THEN <<>>
    ELSE LET m == CHOOSE a \in S : \A b \in S : a <= b
         IN  <<m>> \o Sorted(S \ {m})

\* the lists np.random.shuffle can leave in place of s
Shuffles(s) == {[i \in 1..Len(s) |-> s[p[i]]] : p \in Permutations(1..Len(s))}

\* s[a:b] and s[a:] for 0 <= a, 0 <= b
Slice(s, a, b) == SubSeq(s, a + 1, IF b <= Len(s) THEN b ELSE Len(s))
SliceFrom(s, a) == SubSeq(s, a + 1, Len(s))

\* ann.get('x') is not None and ann.get('y') is not None (line 33)
IsValidAnnotation(ann) == DictGet(ann, "x") # None /\ DictGet(ann, "y") # None

\* lines 59-61
TrainFiles(files, n_train) == Slice(files, 0, n_train)
\* (faulty variant: the slice ends at n_val)
ValFilesEndingAtNVal(files, n_train, n_val) == Slice(files, n_train, n_val)
ValFiles(files, n_train, n_val) == Slice(files, n_train, n_train + n_val)
TestFiles(files, n_train, n_val) == SliceFrom(files, n_train + n_val)

\* lines 26-36: load the annotations and keep the valid ones
CocoLoad ==
    /\ coco_pc = "ready"
    /\ valid_annotations' =
           [f \in {g \in DOMAIN coco_annotations :
                       IsValidAnnotation(coco_annotations[g])}
               |-> coco_annotations[f]]
    /\ coco_pc' = "filtered"
    /\ UNCHANGED <<coco_annotations, train_ratio, val_ratio, shuffled_files,
                   train_files, val_files, test_files>>

\* lines 50-70: sort, shuffle and split
CocoSplit ==
    /\ coco_pc = "filtered"
    /\ \E image_list \in Shuffles(Sorted(DOMAIN valid_annotations)) :
          LET n_total == Len(image_list)
              n_train == IntTimes(n_total, train_ratio)
              n_val == IntTimes(n_total, val_ratio)
          IN  /\ shuffled_files' = image_list
              /\ train_files' = TrainFiles(image_list, n_train)
              /\ val_files' = ValFiles(image_list, n_train, n_val)
              /\ test_files' = TestFiles(image_list, n_train, n_val)
    /\ coco_pc' = "split"
    /\ UNCHANGED <<coco_annotations, train_ratio, val_ratio, valid_annotations>>

\* entries as auto_detect_corners and the verifier write them, an entry with
\* y missing and an entry without coordinates
CocoAnnKinds ==
    { [x |-> Num(3), y |-> Num(8), confidence |-> "high"],
      [x |-> Num(4), y |-> None, needs_review |-> TRUE],
      [x |-> None, y |-> None, confidence |-> "zero", needs_review |-> TRUE],
      [confidence |-> "zero"] }

\* ratios of the images, the defaults 0.8 and 0.1 among them
TrainRatios == {Ratio(0, 10), Ratio(5, 10), Ratio(8, 10), Ratio(10, 10)}
ValRatios == {Ratio(0, 10), Ratio(1, 10), Ratio(5, 10), Ratio(10, 10)}

CocoStart(anns, tr, vr) ==
    /\ coco_annotations = anns
    /\ train_ratio = tr
    /\ val_ratio = vr
    /\ valid_annotations = <<>>
    /\ shuffled_files = <<>>
    /\ train_files = <<>>
    /\ val_files = <<>>
    /\ test_files = <<>>
    /\ coco_pc = "ready"

CocoInit ==
    \E S \in SUBSET (1..MaxCocoImages) :
        \E anns \in [S -> CocoAnnKinds], tr \in TrainRatios, vr \in ValRatios :
            CocoStart(anns, tr, vr)
CocoAtRest == CocoStart(<<>>, Ratio(8, 10), Ratio(1, 10))

(***************************************************************************)
(* detect_corner_with_templates                                            *)
(* An image is known by its shape.  A match score counts hundredths, a     *)
(* scale is a fraction.  cv2.matchTemplate and cv2.minMaxLoc are outside   *)
(* the repository: their answer is any score with any place of the result  *)
(* matrix.                                                                 *)
(***************************************************************************)
\* scales=[0.5, 0.75, 1.0, 1.25, 1.5] (line 39)
DefaultScales == <<Ratio(2, 4), Ratio(3, 4), Ratio(4, 4), Ratio(5, 4), Ratio(6, 4)>>

\* lines 56, 60: the shape of image_gray
GrayShape(shape) == IF Len(shape) = 3 THEN <<shape[1], shape[2]>> ELSE shape

\* line 61: the top-right quadrant
TopRightQuadrant(h, w) == <<w \div 2, 0, w \div 2, h \div 2>>

\* lines 78-79
ScaledSize(t, scale) == IntTimes(t, scale)

\* line 81, negated
Fits(scaled_w, scaled_h, region_w, region_h) ==
    ~(scaled_w > region_w \/ scaled_h > region_h)

\* line 91
\* (faulty variant: an equal score replaces the best match)
ImprovesOrEquals(max_val, confidence) == max_val >= confidence
Improves(max_val, confidence) == max_val > confidence

\* lines 94-95
CentreOf(max_loc, x_start, y_start, scaled_w, scaled_h) ==
    <<max_loc[1] + x_start + scaled_w \div 2, max_loc[2] + y_start + scaled_h \div 2>>

\* lines 87-88: max_val and max_loc of the result matrix, which has
\* region - scaled + 1 places each way
MatchResults(scaled_w, scaled_h, region_w, region_h) ==
    LET origin == <<0, 0>>
        far == <<region_w - scaled_w, region_h - scaled_h>>
    IN  { [max_val |-> -20, max_loc |-> origin],
          [max_val |-> 0, max_loc |-> far],
          [max_val |-> 40, max_loc |-> origin],
          [max_val |-> 40, max_loc |-> far],
          [max_val |-> 90, max_loc |-> origin],
          [max_val |-> 90, max_loc |-> far] }

\* the loops of lines 71 and 76 move on
CornerAdvance ==
    IF scale_index < Len(scales)
    THEN /\ scale_index' = scale_index + 1
         /\ UNCHANGED template_index
    ELSE /\ scale_index' = 1
         /\ template_index' = template_index + 1

CornerInLoop ==
    /\ corner_pc = "loop"
    /\ template_index <= Len(corner_templates)
    /\ scales # <<>>

\* lines 52-68
DetectStart ==
    /\ corner_pc = "ready"
    /\ IF image = None
       THEN /\ corner_result' = [x |-> None, y |-> None, confidence |-> 0]
            /\ corner_pc' = "done"
            /\ UNCHANGED search_region
       ELSE /\ search_region' =
                   IF region_arg = None
                   THEN LET shape == GrayShape(image[1])
                        IN  TopRightQuadrant(shape[1], shape[2])
                   ELSE region_arg
            /\ corner_pc' = "loop"
            /\ UNCHANGED corner_result
    /\ best_match' = None
    /\ best_confidence' = 0
    /\ best_location' = <<None, None>>
    /\ template_index' = 1
    /\ scale_index' = 1
    /\ UNCHANGED <<image, corner_templates, region_arg, scales, matched>>

\* lines 72-82: a scaled template larger than the region is passed over
DetectSkip ==
    /\ CornerInLoop
    /\ LET template == corner_templates[template_index]
           scaled_w == ScaledSize(template.shape[2], scales[scale_index])
           scaled_h == ScaledSize(template.shape[1], scales[scale_index])
       IN  ~Fits(scaled_w, scaled_h, search_region[3], search_region[4])
    /\ CornerAdvance
    /\ UNCHANGED <<image, corner_templates, region_arg, scales, search_region,
                   best_confidence, best_location, best_match, corner_pc,
                   corner_result, matched>>

\* lines 72-100: a scaled template that fits is matched
DetectMatch ==
    /\ CornerInLoop
    /\ LET template == corner_templates[template_index]
           scale == scales[scale_index]
           scaled_w == ScaledSize(template.shape[2], scale)
           scaled_h == ScaledSize(template.shape[1], scale)
           x_start == search_region[1]
           y_start == search_region[2]
           region_w == search_region[3]
           region_h == search_region[4]
       IN  /\ Fits(scaled_w, scaled_h, region_w, region_h)
           /\ \E found \in MatchResults(scaled_w, scaled_h, region_w, region_h) :
                 /\ IF Improves(found.max_val, best_confidence)
                    THEN /\ best_confidence' = found.max_val
                         /\ best_location' =
                                LET c == CentreOf(found.max_loc, x_start, y_start,
                                                  scaled_w, scaled_h)
                                IN  <<Num(c[1]), Num(c[2])>>
                         /\ best_match' = [template |-> template.name,
                                           scale |-> scale,
                                           confidence |-> found.max_val]
                    ELSE UNCHANGED <<best_confidence, best_location, best_match>>
                 /\ matched' = Append(matched,
                                      [template |-> template_index,
                                       scale |-> scale_index,
                                       max_val |-> found.max_val,
                                       max_loc |-> found.max_loc])
    /\ CornerAdvance
    /\ UNCHANGED <<image, corner_templates, region_arg, scales, search_region,
                   corner_pc, corner_result>>

\* line 102
DetectReturn ==
    /\ corner_pc = "loop"
    /\ ~CornerInLoop
    /\ corner_result' = [x |-> best_location[1], y |-> best_location[2],
                         confidence |-> best_confidence]
    /\ corner_pc' = "done"
    /\ UNCHANGED <<image, corner_templates, region_arg, scales, search_region,
                   template_index, scale_index, best_confidence, best_location,
                   best_match, matched>>

\* a colour image, a grayscale image, and no image
ImageArgs == {None, <<<<8, 8, 3>>>>, <<<<10, 12>>>>}
\* templates as load_templates returns them: grayscale, not all square
TemplateShapes == {<<8, 8>>, <<6, 6>>, <<6, 10>>}
RegionArgs == {None, <<2, 1, 5, 5>>}
ScaleArgs == {DefaultScales, <<Ratio(4, 4)>>}

CornerStart(img, tmpls, region, scs) ==
    /\ image = img
    /\ corner_templates = tmpls
    /\ region_arg = region
    /\ scales = scs
    /\ search_region = region
    /\ template_index = 1
    /\ scale_index = 1
    /\ best_confidence = 0
    /\ best_location = <<None, None>>
    /\ best_match = None
    /\ corner_pc = "ready"
    /\ corner_result = None
    /\ matched = <<>>

CornerInit ==
    \E img \in ImageArgs, region \in RegionArgs, scs \in ScaleArgs,
       shapes \in SeqsUpTo(TemplateShapes, MaxTemplates) :
        CornerStart(img,
                    [i \in DOMAIN shapes |-> [name |-> i, shape |-> shapes[i]]],
                    region, scs)
CornerAtRest == CornerStart(None, <<>>, None, DefaultScales)

(***************************************************************************)
(* distort_images                                                          *)
(* A file name is a sequence of symbols; a symbol that starts with a dot   *)
(* is an extension.  The content of a file tells what it is and, for a     *)
(* file the script wrote, from which input and in which run.  Loading a    *)
(* file that is not an image raises, run after run.                        *)
(***************************************************************************)
DotSymbols == {".jpg", ".JPG", ".jpeg", ".txt"}

\* f.lower()
LowerSymbol(c) == IF c = ".JPG" THEN ".jpg" ELSE c
LowerName(f) == [i \in DOMAIN f |-> LowerSymbol(f[i])]

\* f.endswith(('.jpg', '.jpeg'))
EndsWithJpg(f) == f # <<>> /\ f[Len(f)] \in {".jpg", ".jpeg"}

\* suffix in f
Contains(sub, f) ==
    \E i \in 0..(Len(f) - Len(sub)) : SubSeq(f, i + 1, i + Len(sub)) = sub

\* os.path.splitext(filename): a leading dot starts no extension
SplitExt(f) ==
    IF Len(f) >= 2 /\ f[Len(f)] \in DotSymbols
    THEN <<SubSeq(f, 1, Len(f) - 1), <<f[Len(f)]>>>>
    ELSE <<f, <<>>>>

\* lines 30-31 (pil), 29-30 (gimp)
IsJpg(f) == EndsWithJpg(LowerName(f))

\* line 38 (pil), 37 (gimp)
\* (faulty variant: no file is filtered out)
TakenWhatever(f, sfx) == TRUE
Taken(f, sfx) == ~Contains(sfx, f)

\* lines 50-51 (pil), 49-50 (gimp)
OutputFilename(f, sfx) == SplitExt(f)[1] \o sfx \o SplitExt(f)[2]

\* Image.open / pdb.gimp_file_load reads an image
Loads(content) == content.kind = "image"
\* image.save / pdb.gimp_file_save writes the format the extension names
Saves(name) == SplitExt(name)[2] # <<>> /\ IsJpg(name)

Original(kind) == [kind |-> kind, source |-> <<>>, written |-> 0]
Distorted(f, run) == [kind |-> "image", source |-> f, written |-> run]

\* the orders os.listdir can give the names in
Listings(S) ==
    {[i \in 1..Cardinality(S) |-> p[i]] :
        p \in {q \in [1..Cardinality(S) -> S] : \A a \in S : \E i \in DOMAIN q : q[i] = a}}

\* lines 24-43 (pil), 23-42 (gimp)
DistortStart ==
    /\ distort_pc = "idle"
    /\ run_no < MaxRuns
    /\ run_no' = run_no + 1
    /\ processed' = 0
    /\ errors' = 0
    /\ IF ~folder_exists
       THEN /\ jpg_files' = <<>>
            /\ distort_pc' = "idle"
            /\ after_first' = IF run_no = 0 THEN folder ELSE after_first
       ELSE \E listing \in Listings(DOMAIN folder) :
               LET all_jpg == SelectSeq(listing, IsJpg)
                   takes(f) == Taken(f, suffix)
               IN  IF all_jpg = <<>>
                   THEN /\ jpg_files' = <<>>
                        /\ distort_pc' = "idle"
                        /\ after_first' = IF run_no = 0 THEN folder ELSE after_first
                   ELSE /\ jpg_files' = SelectSeq(all_jpg, takes)
                        /\ distort_pc' = "loop"
                        /\ UNCHANGED after_first
    /\ UNCHANGED <<folder_exists, folder, suffix>>

\* lines 45-100 (pil), 44-137 (gimp): one pass of the loop
DistortFile ==
    /\ distort_pc = "loop"
    /\ jpg_files # <<>>
    /\ LET filename == Head(jpg_files)
           output_filename == OutputFilename(filename, suffix)
       IN  IF output_filename \in DOMAIN folder
           THEN UNCHANGED <<folder, processed, errors>>
           ELSE IF Loads(folder[filename]) /\ Saves(output_filename)
                THEN /\ folder' = DictSet(folder, output_filename,
                                          Distorted(filename, run_no))
                     /\ processed' = processed + 1
                     /\ UNCHANGED errors
                ELSE /\ errors' = errors + 1
                     /\ UNCHANGED <<folder, processed>>
    /\ jpg_files' = Tail(jpg_files)
    /\ UNCHANGED <<folder_exists, suffix, distort_pc, run_no, after_first>>

\* line 102 (pil), 139 (gimp)
DistortFinish ==
    /\ distort_pc = "loop"
    /\ jpg_files = <<>>
    /\ distort_pc' = "idle"
    /\ after_first' = IF run_no = 1 THEN folder ELSE after_first
    /\ UNCHANGED <<folder_exists, folder, suffix, jpg_files, processed, errors,
                   run_no>>

\* the files a folder may hold before the first run
FilePool ==
    { <<<<"a", ".jpg">>, Original("image")>>,
      <<<<"a", "_d", ".jpg">>, Original("image")>>,
      <<<<"b", ".JPG">>, Original("image")>>,
      <<<<"c", ".jpeg">>, Original("corrupt")>>,
      <<<<"n", ".txt">>, Original("text")>>,
      <<<<".jpg">>, Original("image")>> }

Suffixes == {<<"_d">>, <<"a">>, <<>>}

DistortStart0(exists, files, sfx) ==
    /\ folder_exists = exists
    /\ folder = [f \in {e[1] : e \in files} |->
                    (CHOOSE e \in files : e[1] = f)[2]]
    /\ suffix = sfx
    /\ jpg_files = <<>>
    /\ processed = 0
    /\ errors = 0
    /\ distort_pc = "idle"
    /\ run_no = 0
    /\ after_first = <<>>

DistortInit ==
    \/ \E sfx \in Suffixes : DistortStart0(FALSE, {}, sfx)
    \/ \E files \in {F \in SUBSET FilePool : Cardinality(F) <= MaxFiles},
          sfx \in Suffixes : DistortStart0(TRUE, files, sfx)
DistortAtRest == DistortStart0(FALSE, {}, <<"_d">>)

(***************************************************************************)
(* test_top_right_corner.main                                              *)
(* A file name is the sequence of its characters; Python orders strings    *)
(* character by character on their code points.                            *)
(***************************************************************************)
DigitChars == <<"0", "1", "2", "3", "4", "5", "6", "7", "8", "9">>
IsDigit(c) == \E d \in DOMAIN DigitChars : DigitChars[d] = c
DigitValue(c) == (CHOOSE d \in DOMAIN DigitChars : DigitChars[d] = c) - 1

\* ord(c) of the characters in use
Ord(c) ==
    CASE c = "." -> 46
      [] IsDigit(c) -> 48 + DigitValue(c)
      [] c = "_" -> 95
      [] c = "k" -> 107
      [] c = "l" -> 108
      [] c = "m" -> 109
      [] c = "p" -> 112
      [] c = "t" -> 116
      [] c = "x" -> 120

\* a < b on strings
RECURSIVE StrLess(_, _)
StrLess(a, b) ==
    IF b = <<>> THEN FALSE
    ELSE IF a = <<>> THEN TRUE
    ELSE IF Head(a) # Head(b) THEN Ord(Head(a)) < Ord(Head(b))
    ELSE StrLess(Tail(a), Tail(b))

\* list.sort(reverse=True) of a list of distinct strings
RECURSIVE SortReverse(_)
SortReverse(list) ==
    IF list = <<>> THEN <<>>
    ELSE LET greatest == CHOOSE i \in DOMAIN list :
                             \A j \in DOMAIN list \ {i} : StrLess(list[j], list[i])
             others == [k \in 1..(Len(list) - 1) |->
                           IF k < greatest THEN list[k] ELSE list[k + 1]]
         IN  <<list[greatest]>> \o SortReverse(others)

\* f.endswith(tail)
EndsWith(f, tail) ==
    Len(f) >= Len(tail) /\ SubSeq(f, Len(f) - Len(tail) + 1, Len(f)) = tail

\* s.split(sep)[-1] and s.split(sep)[0]
RECURSIVE LastPiece(_, _)
LastPiece(str, sep) ==
    IF \E i \in DOMAIN str : str[i] = sep
    THEN LastPiece(SubSeq(str, (CHOOSE i \in DOMAIN str : str[i] = sep) + 1, Len(str)),
                   sep)
    ELSE str
FirstPiece(str, sep) ==
    IF \E i \in DOMAIN str : str[i] = sep
    THEN SubSeq(str, 1, (CHOOSE i \in DOMAIN str :
                            str[i] = sep /\ \A j \in 1..(i - 1) : str[j] # sep) - 1)
    ELSE str

\* int(s) of a string of digits; anything else raises ValueError
IsNumeral(str) == str # <<>> /\ \A i \in DOMAIN str : IsDigit(str[i])
RECURSIVE IntOfStr(_)
IntOfStr(str) ==
    IF str = <<>> THEN 0
    ELSE 10 * IntOfStr(SubSeq(str, 1, Len(str) - 1)) + DigitValue(str[Len(str)])

\* str(n)
RECURSIVE StrOfInt(_)
StrOfInt(n) ==
    IF n < 10 THEN <<DigitChars[n + 1]>>
    ELSE StrOfInt(n \div 10) \o <<DigitChars[(n % 10) + 1]>>

\* latest.split('_')[-1].split('.')[0] (line 307)
IterationText(latest) == FirstPiece(LastPiece(latest, "_"), ".")

\* f.endswith('.pkl') (line 303)
IsPkl(f) == EndsWith(f, <<".", "p", "k", "l">>)

\* lines 299-303: list the snapshot directory
MainListSnapshots ==
    /\ main_pc = "start"
    /\ IF test_iter # -1
       THEN /\ main_pc' = "test"
            /\ UNCHANGED <<snapshots, printed>>
       ELSE IF snapshot_dir = None
            THEN /\ printed' = Append(printed, "Error: Snapshot directory not found")
                 /\ main_pc' = "returned"
                 /\ UNCHANGED snapshots
            ELSE /\ \E listing \in Listings(snapshot_dir[1]) :
                        snapshots' = SelectSeq(listing, IsPkl)
                 /\ main_pc' = "listed"
                 /\ UNCHANGED printed
    /\ UNCHANGED <<test_iter, iter_arg, snapshot_dir, test_model_calls>>

\* lines 304-311: sort and take the first
MainPickLatest ==
    /\ main_pc = "listed"
    /\ IF snapshots # <<>>
       THEN LET sorted == SortReverse(snapshots)
                latest == sorted[1]
            IN  /\ snapshots' = sorted
                /\ IF IsNumeral(IterationText(latest))
                   THEN /\ test_iter' = IntOfStr(IterationText(latest))
                        /\ printed' = Append(printed, "Using latest model: iteration")
                        /\ main_pc' = "test"
                   ELSE /\ main_pc' = "raised"
                        /\ UNCHANGED <<test_iter, printed>>
       ELSE /\ printed' = Append(printed, "Error: No model snapshots found")
            /\ main_pc' = "returned"
            /\ UNCHANGED <<test_iter, snapshots>>
    /\ UNCHANGED <<iter_arg, snapshot_dir, test_model_calls>>

\* lines 316-317
MainTestModel ==
    /\ main_pc = "test"
    /\ test_model_calls' = Append(test_model_calls, test_iter)
    /\ main_pc' = "returned"
    /\ UNCHANGED <<test_iter, iter_arg, snapshot_dir, snapshots, printed>>

\* <cfg_file>_<iteration>.pkl, the name a snapshot is saved under
SnapshotName(iteration) == <<"m", "_">> \o StrOfInt(iteration) \o <<".", "p", "k", "l">>

\* iterations with one, two and three digits
Iterations == {5, 9, 10, 50, 100}

\* the snapshots and a file that is none
DirFiles == {SnapshotName(n) : n \in Iterations} \cup {<<"m", "_", "7", ".", "t", "x", "t">>}

TesterStart(iter, dir) ==
    /\ test_iter = iter
    /\ iter_arg = iter
    /\ snapshot_dir = dir
    /\ snapshots = <<>>
    /\ printed = <<>>
    /\ test_model_calls = <<>>
    /\ main_pc = "start"

TesterInit ==
    \E iter \in {-1, 50} :
        \/ TesterStart(iter, None)
        \/ \E files \in {F \in SUBSET DirFiles : Cardinality(F) <= MaxSnapshots} :
              TesterStart(iter, <<files>>)
TesterAtRest == TesterStart(-1, None)

(***************************************************************************)
(* kp_detection                                                            *)
(* A detection is [score, class, x, y]; scores count hundredths.  The      *)
(* network and kp_decode are outside the script: their detections are the  *)
(* input.                                                                  *)
(***************************************************************************)
\* (an array indexed by a boolean mask is SelectSeq of its rows)

\* lines 102, 106
PositiveScore(det) == det.score > 0

\* lines 112-116
GroupByCategory(dets, n_categories) ==
    [j \in 1..n_categories |->
        LET of_class(det) == det.class = j - 1
        IN  SelectSeq(dets, of_class)]

\* np.hstack of the score columns (lines 119, 127)
RECURSIVE ScoresFrom(_, _)
ScoresFrom(top_points, j) ==
    IF j > Len(top_points) THEN <<>>
    ELSE [i \in DOMAIN top_points[j] |-> top_points[j][i].score]
             \o ScoresFrom(top_points, j + 1)
AllScores(top_points) == ScoresFrom(top_points, 1)

\* np.partition(scores, kth)[kth]: the element at place kth (from 0) of the
\* scores in ascending order
RECURSIVE Ascending(_)
Ascending(list) ==
    IF list = <<>> THEN <<>>
    ELSE LET least == CHOOSE i \in DOMAIN list : \A j \in DOMAIN list : list[i] <= list[j]
             others == [k \in 1..(Len(list) - 1) |->
                           IF k < least THEN list[k] ELSE list[k + 1]]
         IN  <<list[least]>> \o Ascending(others)
PartitionAt(list, kth) == Ascending(list)[kth + 1]

\* lines 119-125 and 127-133
FilterMaxPerImage(top_points, limit) ==
    LET all_scores == AllScores(top_points)
    IN  IF Len(all_scores) > limit
        THEN LET kth == Len(all_scores) - limit
                 thresh == PartitionAt(all_scores, kth)
                 above(det) == det.score >= thresh
             IN  [j \in DOMAIN top_points |-> SelectSeq(top_points[j], above)]
        ELSE top_points

\* lines 101-108
KpRejectNegative ==
    /\ kp_pc = "decoded"
    /\ detections_point_tl' = SelectSeq(detections_point_tl, PositiveScore)
    /\ detections_point_br' = SelectSeq(detections_point_br, PositiveScore)
    /\ kp_pc' = "kept"
    /\ UNCHANGED <<categories, max_per_image, top_points_tl, top_points_br,
                   grouped_tl, grouped_br>>

\* lines 110-116
KpGroup ==
    /\ kp_pc = "kept"
    /\ top_points_tl' = GroupByCategory(detections_point_tl, categories)
    /\ top_points_br' = GroupByCategory(detections_point_br, categories)
    /\ grouped_tl' = top_points_tl'
    /\ grouped_br' = top_points_br'
    /\ kp_pc' = "grouped"
    /\ UNCHANGED <<categories, max_per_image, detections_point_tl,
                   detections_point_br>>

\* lines 118-125
KpFilterTl ==
    /\ kp_pc = "grouped"
    /\ top_points_tl' = FilterMaxPerImage(top_points_tl, max_per_image)
    /\ kp_pc' = "tl_done"
    /\ UNCHANGED <<categories, max_per_image, detections_point_tl,
                   detections_point_br, top_points_br, grouped_tl, grouped_br>>

\* lines 127-135
KpFilterBr ==
    /\ kp_pc = "tl_done"
    /\ top_points_br' = FilterMaxPerImage(top_points_br, max_per_image)
    /\ kp_pc' = "done"
    /\ UNCHANGED <<categories, max_per_image, detections_point_tl,
                   detections_point_br, top_points_tl, grouped_tl, grouped_br>>

\* what the network may report for a point: a rejected score or one of two
\* positive scores, in one of two classes
DetectionKinds ==
    {[score |-> sc, class |-> c] : sc \in {0, 30, 70}, c \in {0, 1}}

\* dets_tl / dets_br after _rescale_points: x is the place in the array
Placed(kinds) ==
    [i \in DOMAIN kinds |-> [score |-> kinds[i].score, class |-> kinds[i].class,
                             x |-> i, y |-> 0]]

\* a few arrays for the other corner
FewArrays ==
    { <<>>,
      <<[score |-> 30, class |-> 0], [score |-> 30, class |-> 1]>>,
      <<[score |-> 70, class |-> 0], [score |-> 30, class |-> 0],
        [score |-> -10, class |-> 0]>> }

KpStart(n_categories, limit, tl, br) ==
    /\ categories = n_categories
    /\ max_per_image = limit
    /\ detections_point_tl = tl
    /\ detections_point_br = br
    /\ top_points_tl = <<>>
    /\ top_points_br = <<>>
    /\ kp_pc = "decoded"
    /\ grouped_tl = <<>>
    /\ grouped_br = <<>>

KpInit ==
    \E n_categories \in {1, 2}, limit \in {1, 2},
       many \in SeqsUpTo(DetectionKinds, MaxDetections), few \in FewArrays :
        \/ KpStart(n_categories, limit, Placed(many), Placed(few))
        \/ KpStart(n_categories, limit, Placed(few), Placed(many))
KpAtRest == KpStart(1, 1, <<>>, <<>>)

(***************************************************************************)
(* The specifications                                                      *)
(***************************************************************************)
\* every script but the named one keeps its variables
Only(script) ==
    /\ IF script = "signer" THEN TRUE ELSE UNCHANGED signerVars
    /\ IF script = "encoder" THEN TRUE ELSE UNCHANGED encoderVars
    /\ IF script = "verifier" THEN TRUE ELSE UNCHANGED verifierVars
    /\ IF script = "coco" THEN TRUE ELSE UNCHANGED cocoVars
    /\ IF script = "corner" THEN TRUE ELSE UNCHANGED cornerVars
    /\ IF script = "distort" THEN TRUE ELSE UNCHANGED distortVars
    /\ IF script = "tester" THEN TRUE ELSE UNCHANGED testerVars
    /\ IF script = "kp" THEN TRUE ELSE UNCHANGED kpVars

\* every script but the named one is at rest
AtRestBut(script) ==
    /\ IF script = "signer" THEN TRUE ELSE SignerAtRest
    /\ IF script = "encoder" THEN TRUE ELSE EncoderAtRest
    /\ IF script = "verifier" THEN TRUE ELSE VerifierAtRest
    /\ IF script = "coco" THEN TRUE ELSE CocoAtRest
    /\ IF script = "corner" THEN TRUE ELSE CornerAtRest
    /\ IF script = "distort" THEN TRUE ELSE DistortAtRest
    /\ IF script = "tester" THEN TRUE ELSE TesterAtRest
    /\ IF script = "kp" THEN TRUE ELSE KpAtRest

SignerOnly == Only("signer")
EncoderOnly == Only("encoder")
VerifierOnly == Only("verifier")
CocoOnly == Only("coco")
CornerOnly == Only("corner")
DistortOnly == Only("distort")
TesterOnly == Only("tester")
KpOnly == Only("kp")

Init == SignerInit /\ AtRestBut("signer")
Next ==
    \/ SignerOnly /\ \E f \in OutputFilenames, ok \in BOOLEAN : SignWithNextUuid(f, ok)
    \/ SignerOnly /\ \E p \in 1..MaxPages, o \in OutputPaths, t \in TemplateEnvs :
                        SignPdfStart(p, o, t)
    \/ SignerOnly /\ SignPdfPage
    \/ SignerOnly /\ SignPdfMerge
    \/ SignerOnly /\ SignPdfFinally
Spec == Init /\ [][Next]_vars

InitEncode == EncoderInit /\ AtRestBut("encoder")
NextEncode == EncoderOnly /\ Encode
SpecEncode == InitEncode /\ [][NextEncode]_vars

InitVerifier == VerifierInit /\ AtRestBut("verifier")
NextVerifier ==
    \/ VerifierOnly /\ RunStart
    \/ VerifierOnly /\ \E pt \in ClickPoints : MouseClick(pt[1], pt[2])
    \/ VerifierOnly /\ KeyAccept
    \/ VerifierOnly /\ KeyReject
    \/ VerifierOnly /\ KeyNext
    \/ VerifierOnly /\ KeyPrev
    \/ VerifierOnly /\ KeySave
    \/ VerifierOnly /\ KeyQuit
    \/ VerifierOnly /\ KeyOther
SpecVerifier == InitVerifier /\ [][NextVerifier]_vars

InitCoco == CocoInit /\ AtRestBut("coco")
NextCoco ==
    \/ CocoOnly /\ CocoLoad
    \/ CocoOnly /\ CocoSplit
SpecCoco == InitCoco /\ [][NextCoco]_vars

InitCorner == CornerInit /\ AtRestBut("corner")
NextCorner ==
    \/ CornerOnly /\ DetectStart
    \/ CornerOnly /\ DetectSkip
    \/ CornerOnly /\ DetectMatch
    \/ CornerOnly /\ DetectReturn
SpecCorner == InitCorner /\ [][NextCorner]_vars

InitDistort == DistortInit /\ AtRestBut("distort")
NextDistort ==
    \/ DistortOnly /\ DistortStart
    \/ DistortOnly /\ DistortFile
    \/ DistortOnly /\ DistortFinish
SpecDistort == InitDistort /\ [][NextDistort]_vars

InitTester == TesterInit /\ AtRestBut("tester")
NextTester ==
    \/ TesterOnly /\ MainListSnapshots
    \/ TesterOnly /\ MainPickLatest
    \/ TesterOnly /\ MainTestModel
SpecTester == InitTester /\ [][NextTester]_vars

InitKp == KpInit /\ AtRestBut("kp")
NextKp ==
    \/ KpOnly /\ KpRejectNegative
    \/ KpOnly /\ KpGroup
    \/ KpOnly /\ KpFilterTl
    \/ KpOnly /\ KpFilterBr
SpecKp == InitKp /\ [][NextKp]_vars

(***************************************************************************)
(* Vocabulary of the signer properties, stated on the CSV text itself      *)
(***************************************************************************)
\* blank after stripping whitespace: nothing but whitespace
BlankText(s) == \A i \in DOMAIN s : s[i] = " "

\* a row that offers its UUID: entity and state both blank
Unused(row) == BlankText(row.entity) /\ BlankText(row.state)
UnusedIdx(file) == {i \in DOMAIN file : Unused(file[i])}

\* the k-th unused row in CSV order
KthUnused(file, k) ==
    CHOOSE i \in UnusedIdx(file) : Cardinality({j \in UnusedIdx(file) : j <= i}) = k

Min(a, b) == IF a <= b THEN a ELSE b

IsSignNext == op = "sign_with_next_uuid"
IsSignPdf == op = "sign_pdf_with_barcodes"
Returned == pc = "idle" /\ result.kind = "tuple"
RaisedOut == pc = "idle" /\ result.kind = "raise"

\* the pages signed so far by the running sign_pdf_with_barcodes call, or the
\* pages it returned
PagesOfCall ==
    IF ~IsSignPdf THEN <<>>
    ELSE IF pc # "idle" THEN signed_pages
    ELSE IF result.kind = "tuple" THEN result.pages
    ELSE <<>>

\* the UUIDs the running / last call has taken from the CSV
TakenByCall ==
    {PagesOfCall[k].uuid : k \in DOMAIN PagesOfCall}
        \cup (IF IsSignNext /\ Returned THEN {result.uuid} ELSE {})

(***************************************************************************)
(* C1: over any sequence of sign_with_next_uuid and sign_pdf_with_barcodes *)
(* calls on one CSV with pairwise distinct uuids, no UUID is carried by    *)
(* more than one signed document or page, and a row that was not unused    *)
(* when a call started is never selected by that call.                     *)
(***************************************************************************)
C1_NoUuidAssignedTwice ==
    /\ \A u \in DOMAIN issued : issued[u] <= 1
    /\ \A i \in DOMAIN csvBefore :
          ~Unused(csvBefore[i]) => csvBefore[i].uuid \notin TakenByCall
    /\ \A i \in DOMAIN csv :
          issued[csv[i].uuid] = 1 => csv[i].state = Active /\ ~Unused(csv[i])

C1_Witness ==
    /\ IsSignNext /\ Returned
    /\ \E u \in DOMAIN issued : issued[u] = 1 /\ u \notin TakenByCall
    /\ \E i \in DOMAIN csvBefore : csvBefore[i].state = Active

(***************************************************************************)
(* C2: sign_with_next_uuid returns None when no CSV row has entity and     *)
(* state both blank; it then writes no SVG and leaves the CSV unchanged.   *)
(***************************************************************************)
C2_NoneWhenNoUuid ==
    (IsSignNext /\ UnusedIdx(csvBefore) = {}) =>
        /\ result = RetNone
        /\ wrote = {}
        /\ csv = csvBefore

C2_Witness ==
    /\ IsSignNext /\ result = RetNone
    /\ \E i \in DOMAIN csv : BlankText(csv[i].entity) /\ ~BlankText(csv[i].state)
    /\ \E i \in DOMAIN csv : ~BlankText(csv[i].entity) /\ BlankText(csv[i].state)

(***************************************************************************)
(* C3: a successful sign_with_next_uuid selects the first row in CSV order *)
(* whose entity and state are both blank after stripping, sets its entity  *)
(* to '<output_filename>.svg' (the UUID with '_' for '-' when no name is   *)
(* given) and its state to 'active', and leaves every other row, every     *)
(* uuid and the order of the rows unchanged.                               *)
(***************************************************************************)
C3_FirstBlankRowMarked ==
    (IsSignNext /\ Returned) =>
        /\ UnusedIdx(csvBefore) # {}
        /\ LET i == KthUnused(csvBefore, 1)
               uuid == csvBefore[i].uuid
               name == IF out_arg.some THEN out_arg.val
                       ELSE [k \in DOMAIN uuid |->
                                IF uuid[k] = "-" THEN "_" ELSE uuid[k]]
           IN  /\ result.uuid = csvBefore[i].uuid
               /\ DOMAIN csv = DOMAIN csvBefore
               /\ csv[i] = [uuid |-> csvBefore[i].uuid,
                            entity |-> name \o <<".svg">>,
                            state |-> <<"active">>]
               /\ \A j \in DOMAIN csv : j # i => csv[j] = csvBefore[j]

C3_Witness ==
    /\ IsSignNext /\ Returned
    /\ KthUnused(csvBefore, 1) > 1
    /\ csvBefore[KthUnused(csvBefore, 1)].entity = <<" ">>
    /\ \E j \in 1..(KthUnused(csvBefore, 1) - 1) :
          BlankText(csvBefore[j].entity) /\ ~BlankText(csvBefore[j].state)
    /\ Cardinality(UnusedIdx(csvBefore)) >= 2

(***************************************************************************)
(* C4: the k-th page processed by sign_pdf_with_barcodes receives the k-th *)
(* unused UUID in CSV order, so the pages of one call carry pairwise       *)
(* different UUIDs; the row of that UUID is recorded with entity           *)
(* '<basename of output_path>_page_<k>' and state 'active': in the rows    *)
(* held by the call while it runs, and in the CSV file once it returned.   *)
(***************************************************************************)
C4_KthPageKthUuid ==
    LET pages == PagesOfCall
        base == IF out_arg.some THEN out_arg.val.base
                ELSE <<"hw", "_signed", ".pdf">>
        recorded == IF pc = "idle" THEN csv ELSE rows
    IN  /\ Len(pages) <= Cardinality(UnusedIdx(csvBefore))
        /\ \A k \in DOMAIN pages :
              LET i == KthUnused(csvBefore, k)
              IN  /\ pages[k].page = k
                  /\ pages[k].uuid = csvBefore[i].uuid
                  /\ recorded[i] = [uuid |-> csvBefore[i].uuid,
                                    entity |-> base \o <<"_page_", ToString(k)>>,
                                    state |-> <<"active">>]
        /\ \A k, l \in DOMAIN pages : k # l => pages[k].uuid # pages[l].uuid

C4_Witness ==
    /\ IsSignPdf /\ Returned
    /\ Len(result.pages) >= 2
    /\ KthUnused(csvBefore, 2) > 2
    /\ out_arg.some

(***************************************************************************)
(* C5: with A unused UUIDs and P pages, and templates that serve every     *)
(* page, sign_pdf_with_barcodes returns normally, and the merged PDF and   *)
(* the returned page list hold exactly the pages 1..min(A, P) in order.    *)
(***************************************************************************)
TemplateServes(n, tmpl) ==
    LET own == IF n % 2 = 0 THEN tmpl.t0 ELSE tmpl.t1
    IN  own = "ok" \/ (own = "missing" /\ tmpl.td = "ok")

TemplatesServeCall == \A n \in 0..(num_pages - 1) : TemplateServes(n, templates)

PagesInOrder(pages, n) ==
    /\ Len(pages) = n
    /\ \A k \in 1..n : pages[k].page = k

C5_StopsAtLastUuid ==
    (IsSignPdf /\ pc = "idle" /\ TemplatesServeCall) =>
        LET n == Min(Cardinality(UnusedIdx(csvBefore)), num_pages)
        IN  /\ result.kind = "tuple"
            /\ PagesInOrder(result.pages, n)
            /\ \E f \in wrote :
                  /\ wrote = {f}
                  /\ f.path = result.path
                  /\ f.label = [k \in 1..n |-> result.pages[k].uuid]

\* what does hold: the claim for a call that finds at least one unused UUID
SignPdfStopsAtLastUuidIfAny ==
    (IsSignPdf /\ pc = "idle" /\ TemplatesServeCall
        /\ UnusedIdx(csvBefore) # {}) =>
        LET n == Min(Cardinality(UnusedIdx(csvBefore)), num_pages)
        IN  /\ result.kind = "tuple"
            /\ PagesInOrder(result.pages, n)
            /\ \E f \in wrote :
                  /\ wrote = {f}
                  /\ f.path = result.path
                  /\ f.label = [k \in 1..n |-> result.pages[k].uuid]

\* and a call that finds none raises at the save of the empty merged PDF
SignPdfRaisesIfNoUuid ==
    (IsSignPdf /\ pc = "idle" /\ TemplatesServeCall
        /\ UnusedIdx(csvBefore) = {}) =>
        /\ result = Raised("ValueError")
        /\ wrote = {}
        /\ csv = csvBefore

Capitals == {<<"a", "A">>, <<"q", "Q">>, <<"z", "Z">>}

\* the capital of a small letter, any other character itself
Capital(c) ==
    IF \E pr \in Capitals : pr[1] = c
    THEN (CHOOSE pr \in Capitals : pr[1] = c)[2]
    ELSE c

BarsOfChar(k) == SubSeq(bars, 4 * k - 3, 4 * k)

C7_FourBarsPerChar ==
    enc_pc = "done" =>
        /\ Len(bars) = 4 * Len(data)
        /\ \A i \in DOMAIN bars : bars[i] \in {"F", "A", "D", "T"}
        /\ \A k \in DOMAIN data :
              BarsOfChar(k) = IF Capital(data[k]) \in DOMAIN CHAR_MAP
                              THEN CHAR_MAP[Capital(data[k])]
                              ELSE <<"A", "T", "D", "A">>
        /\ \A k, l \in DOMAIN data :
              Capital(data[k]) = Capital(data[l]) => BarsOfChar(k) = BarsOfChar(l)

C7_Witness ==
    /\ enc_pc = "done"
    /\ data = <<"q", "-", "Z">>
    /\ bars = <<"A","T","A","A", "A","T","D","A", "D","A","T","D">>

(***************************************************************************)
(* Vocabulary of the verifier properties                                   *)
(***************************************************************************)
\* an entry accepted with a point: x, y, verified = true, no needs_review
AsVerified(ann, point) ==
    [k \in (DOMAIN ann \cup {"x", "y", "verified"}) \ {"needs_review"} |->
        IF k = "x" THEN <<point[1]>>
        ELSE IF k = "y" THEN <<point[2]>>
        ELSE IF k = "verified" THEN TRUE
        ELSE ann[k]]

\* an entry without a point: x = y = null, needs_review = true
AsRejected(ann) ==
    [k \in DOMAIN ann \cup {"x", "y", "needs_review"} |->
        IF k \in {"x", "y"} THEN <<>>
        ELSE IF k = "needs_review" THEN TRUE
        ELSE ann[k]]

NotWritten == [written |-> FALSE, content |-> <<>>]

(***************************************************************************)
(* C8: 'q' quits without saving: whatever clicks, accepts, rejects and     *)
(* navigations came before, the output file is not written, and nothing    *)
(* happens after the key (the key loop has ended).                         *)
(***************************************************************************)
C8_QuitNeverSaves ==
    run_pc = "quit" => (output_file = NotWritten /\ ~ENABLED NextVerifier)

C8_Witness ==
    /\ run_pc = "quit"
    /\ current_index > 0
    /\ mouse_point # None
    /\ \A f \in DOMAIN loaded : annotations[f] # loaded[f]

(***************************************************************************)
(* C9: 's' saves and exits: the output file holds every loaded entry with  *)
(* the changes made by the earlier events (an image that never was the     *)
(* current one keeps its loaded entry), the current image's entry is set   *)
(* from the current point (x, y, verified = true, needs_review removed)    *)
(* or, without a point, to x = y = null with needs_review = true; nothing  *)
(* happens after the key.                                                  *)
(***************************************************************************)
C9_SaveWritesEverything ==
    [][ /\ (run_pc = "loop" /\ run_pc' = "saved") =>
            /\ output_file'.written
            /\ DOMAIN output_file'.content = DOMAIN loaded
            /\ \A f \in DOMAIN loaded :
                  output_file'.content[f] =
                      IF <<f>> # current_image_file THEN annotations[f]
                      ELSE IF current_point # None
                      THEN AsVerified(annotations[f], current_point)
                      ELSE AsRejected(annotations[f])
            /\ \A f \in DOMAIN loaded \ touched :
                  output_file'.content[f] = loaded[f]
        /\ run_pc = "saved" => UNCHANGED vars
      ]_vars

C9_Witness ==
    /\ run_pc = "saved"
    /\ current_index = 1
    /\ output_file.written
    /\ output_file.content[1] # loaded[1]
    /\ "needs_review" \in DOMAIN loaded[2]
    /\ "needs_review" \notin DOMAIN output_file.content[2]
    /\ output_file.content[2]["x"] = <<6>>

(***************************************************************************)
(* C10: 'a' accepts the current detection: when the current image has a    *)
(* point (its loaded annotation or the latest click made on it, the click  *)
(* winning), its annotation gets x and y of that point, verified = true    *)
(* and no needs_review; when it has none, no annotation changes.  The      *)
(* annotations of all other images are unchanged in both cases.            *)
(***************************************************************************)
C10_AcceptSetsOwnPoint ==
    [][ KeyAccept =>
            annotations' =
                IF own_point # None
                THEN [annotations EXCEPT ![current_image_file[1]] =
                                            AsVerified(@, own_point)]
                ELSE annotations
      ]_vars

\* what does hold: 'a' acts on self.current_point, which after a failed
\* load_image is still the point of the image shown before
AcceptSetsCurrentPoint ==
    [][ KeyAccept =>
            annotations' =
                IF current_point # None
                THEN [annotations EXCEPT ![current_image_file[1]] =
                                            AsVerified(@, current_point)]
                ELSE annotations
      ]_vars

\* and the two points differ only while an unreadable image is current
OwnPointUnlessUnreadable ==
    (run_pc = "loop" /\ current_image # None) => current_point = own_point

(***************************************************************************)
(* Vocabulary of the split property                                        *)
(***************************************************************************)
Elements(s) == {s[i] : i \in DOMAIN s}
NoRepeat(s) == Cardinality(Elements(s)) = Len(s)

\* the annotations whose x and y are both present and not null
NonNull(anns) ==
    {f \in DOMAIN anns : /\ "x" \in DOMAIN anns[f] /\ anns[f].x # None
                         /\ "y" \in DOMAIN anns[f] /\ anns[f].y # None}

\* floor(n * ratio): the greatest whole number not above n * num / den
FloorTimes(n, ratio) ==
    CHOOSE m \in 0..(n * ratio.num) :
        m * ratio.den <= n * ratio.num /\ (m + 1) * ratio.den > n * ratio.num

\* C11: for ratios between 0 and 1, once create_coco_structure has split,
\* the train, val and test lists are pairwise disjoint, repeat no file, and
\* together hold exactly the annotations whose x and y are both non-null;
\* |train| = floor(n * train_ratio), |val| = min(floor(n * val_ratio),
\* n - |train|), and test holds the rest.
C11_SplitPartitionsValid ==
    coco_pc = "split" =>
        LET valid == NonNull(coco_annotations)
            n == Cardinality(valid)
        IN  /\ Elements(train_files) \cap Elements(val_files) = {}
            /\ Elements(train_files) \cap Elements(test_files) = {}
            /\ Elements(val_files) \cap Elements(test_files) = {}
            /\ NoRepeat(train_files) /\ NoRepeat(val_files) /\ NoRepeat(test_files)
            /\ Elements(train_files) \cup Elements(val_files)
                   \cup Elements(test_files) = valid
            /\ Len(train_files) = FloorTimes(n, train_ratio)
            /\ Len(val_files) = Min(FloorTimes(n, val_ratio), n - Len(train_files))
            /\ Len(test_files) = n - Len(train_files) - Len(val_files)

\* a split of two or more valid annotations out of more, shuffled out of order,
\* where val is cut short by the end of the list
C11_Witness ==
    /\ coco_pc = "split"
    /\ NonNull(coco_annotations) # DOMAIN coco_annotations
    /\ Cardinality(NonNull(coco_annotations)) >= 2
    /\ shuffled_files # Sorted(NonNull(coco_annotations))
    /\ Len(train_files) >= 1
    /\ Len(val_files) >= 1
    /\ Len(val_files) < FloorTimes(Cardinality(NonNull(coco_annotations)), val_ratio)

(***************************************************************************)
(* Vocabulary of the corner detection property                             *)
(***************************************************************************)
\* the region searched: the one given, else the top-right quadrant
RegionSearched ==
    IF region_arg # None THEN region_arg
    ELSE LET h == image[1][1]
             w == image[1][2]
         IN  <<w \div 2, 0, w \div 2, h \div 2>>

\* the size of template t at the scale in place s of the list, cut to whole
\* pixels
WidthAt(t, s) == (corner_templates[t].shape[2] * scales[s].num) \div scales[s].den
HeightAt(t, s) == (corner_templates[t].shape[1] * scales[s].num) \div scales[s].den

\* the (template, scale) pairs in iteration order, and those that fit
PairsInOrder ==
    [k \in 1..(Len(corner_templates) * Len(scales)) |->
        <<((k - 1) \div Len(scales)) + 1, ((k - 1) % Len(scales)) + 1>>]
PairFits(pair) ==
    /\ WidthAt(pair[1], pair[2]) <= RegionSearched[3]
    /\ HeightAt(pair[1], pair[2]) <= RegionSearched[4]
FittingPairs == SelectSeq(PairsInOrder, PairFits)

\* the place a matched pair stands for: the centre of its best match
PlaceOf(m) ==
    <<m.max_loc[1] + RegionSearched[1] + WidthAt(m.template, m.scale) \div 2,
      m.max_loc[2] + RegionSearched[2] + HeightAt(m.template, m.scale) \div 2>>

Written == {f \in DOMAIN folder : folder[f].written > 0}

\* the name ends, before its extension, with the suffix twice
DoublySuffixed(f) ==
    \E ext \in {<<>>} \cup {<<d>> : d \in DotSymbols} :
        \E stem \in {SubSeq(f, 1, k) : k \in 0..Len(f)} :
            f = stem \o suffix \o suffix \o ext

\* C13: from the second run of distort_images on, with the same folder and
\* suffix, the folder is as the first run left it: no file is created and
\* none is modified; and no file the script writes is named
\* <name><suffix><suffix><ext>.
C13_SecondRunChangesNothing ==
    /\ run_no >= 2 => folder = after_first
    /\ \A f \in Written : ~DoublySuffixed(f)

\* a second run has finished on a folder in which the first run wrote a
\* file, skipped an input whose output was there and failed on another
C13_Witness ==
    /\ run_no = 2
    /\ distort_pc = "idle"
    /\ processed = 0
    /\ errors >= 1
    /\ \E f \in Written : folder[f].written = 1
    /\ \E f \in DOMAIN folder \ Written :
          /\ IsJpg(f) /\ ~Contains(suffix, f)
          /\ OutputFilename(f, suffix) \in DOMAIN folder

(***************************************************************************)
(* Vocabulary of the snapshot property                                     *)
(***************************************************************************)
\* the iterations that have a snapshot in the directory
SnapshotIterations ==
    IF snapshot_dir = None THEN {}
    ELSE {n \in Iterations : SnapshotName(n) \in snapshot_dir[1]}

Greatest(S) == CHOOSE n \in S : \A k \in S : k <= n

MainEnded == main_pc \in {"returned", "raised"}

\* C14: called with --test_iter -1, main tests the snapshot with the
\* greatest iteration number among the .pkl files of the directory; when the
\* directory is missing or holds no .pkl file it prints an error and
\* returns without running test_model.
C14_LatestIsGreatest ==
    (MainEnded /\ iter_arg = -1) =>
        IF SnapshotIterations # {}
        THEN test_model_calls = <<Greatest(SnapshotIterations)>>
        ELSE /\ test_model_calls = <<>>
             /\ printed # <<>>
             /\ main_pc = "returned"

\* the part of C14 that holds: without a snapshot, an error and no test
NoSnapshotNoTest ==
    (MainEnded /\ iter_arg = -1 /\ SnapshotIterations = {}) =>
        /\ test_model_calls = <<>>
        /\ printed # <<>>
        /\ main_pc = "returned"

\* and among snapshots whose iteration numbers have the same number of
\* digits, the greatest is tested
SameWidthLatestIsGreatest ==
    (/\ MainEnded /\ iter_arg = -1 /\ SnapshotIterations # {}
     /\ \A n, k \in SnapshotIterations : Len(StrOfInt(n)) = Len(StrOfInt(k)))
        => test_model_calls = <<Greatest(SnapshotIterations)>>

(***************************************************************************)
(* Vocabulary of the max_per_image property                                *)
(***************************************************************************)
\* the detections of all categories together
RECURSIVE Total(_)
Total(top_points) ==
    IF top_points = <<>> THEN 0
    ELSE Len(Head(top_points)) + Total(Tail(top_points))

Retained(top_points) ==
    UNION {{top_points[j][i] : i \in DOMAIN top_points[j]} : j \in DOMAIN top_points}

\* C15: when kp_detection returns, at most max_per_image top-left
\* detections are retained over all categories, and at most max_per_image
\* bottom-right detections; where the total was at most max_per_image
\* before the filter nothing was removed; every retained detection has a
\* score > 0.
C15_AtMostMaxPerImage ==
    kp_pc = "done" =>
        /\ Total(top_points_tl) <= max_per_image
        /\ Total(top_points_br) <= max_per_image
        /\ Total(grouped_tl) <= max_per_image => top_points_tl = grouped_tl
        /\ Total(grouped_br) <= max_per_image => top_points_br = grouped_br
        /\ \A det \in Retained(top_points_tl) \cup Retained(top_points_br) :
              det.score > 0

\* the parts of C15 that hold: nothing is removed from a total within
\* max_per_image, and every retained detection has a score > 0
FewAreKeptAndAllArePositive ==
    kp_pc = "done" =>
        /\ Total(grouped_tl) <= max_per_image => top_points_tl = grouped_tl
        /\ Total(grouped_br) <= max_per_image => top_points_br = grouped_br
        /\ \A det \in Retained(top_points_tl) \cup Retained(top_points_br) :
              det.score > 0

\* and the totals are within max_per_image where no two detections of a
\* corner have the same score
AtMostMaxPerImageWithoutTies ==
    kp_pc = "done" =>
        /\ (\A a, b \in Retained(grouped_tl) : a.score = b.score => a = b)
               => Total(top_points_tl) <= max_per_image
        /\ (\A a, b \in Retained(grouped_br) : a.score = b.score => a = b)
               => Total(top_points_br) <= max_per_image

====
